---- MODULE Spec2Model ----
(***************************************************************************)
(* ftpmirror.py: one-way mirror of a local directory tree to an FTP        *)
(* server.  The script is one sequential program; each action below is one *)
(* of its phases (or one iteration of one of its loops), and the FTP       *)
(* server is the remote file system the commands act on.                   *)
(***************************************************************************)
EXTENDS Integers, Sequences, FiniteSets, TLC

\* ------------------------------------------------------------- bounds

\* File sizes are 0..MaxSize bytes.
MaxSize == 1
\* The server clock is the local clock plus a skew in -MaxSkew..MaxSkew.
MaxSkew == 1
\* Seconds the STOR of the calibration marker may take.
MaxLatency == 1
\* Number of files of the local tree in the navigation scenarios.
MaxFiles == 3
\* Consecutive runs of the program against the same server.
MaxRuns == 2
\* Number of exclude rules given on the command line.
MaxExcludes == 2
\* The command of a run that fails is one of its first MaxFaultAt commands.
MaxFaultAt == 18
\* Depth of the directories the navigation step is applied to on its own.
MaxDepth == 2

\* --------------------------------------------------- program constants

\* Seconds field of the server's MDTM reply ('%Y%m%d%H%M%S').
SecondsPerMinute == 60

\* ------------------------------------------------------------ strings

\* Character codes (ord) of the names the model uses.
Chars(name) ==
    CASE name = "a" -> <<97>>
      [] name = "a-" -> <<97, 45>>
      [] name = "b" -> <<98>>
      [] name = "c" -> <<99>>
      [] name = "x" -> <<120>>
      [] name = "y" -> <<121>>
      [] name = "old" -> <<111, 108, 100>>
      [] name = "keep" -> <<107, 101, 101, 112>>
      [] name = "www" -> <<119, 119, 119>>
      [] name = ".timestamp" -> <<46, 116, 105, 109, 101, 115, 116, 97, 109, 112>>

\* os.sep, as a character code.
Sep == 47

\* os.path.join of the segments of a path: the string the tree is keyed by.
RECURSIVE PathStr(_)
PathStr(segs) ==
    IF segs = <<>> THEN <<>>
    ELSE IF Len(segs) = 1 THEN Chars(segs[1])
    ELSE Chars(segs[1]) \o <<Sep>> \o PathStr(Tail(segs))

\* Python's < on strings.
RECURSIVE StrLess(_, _)
StrLess(s, t) ==
    IF s = <<>> THEN t # <<>>
    ELSE IF t = <<>> THEN FALSE
    ELSE IF s[1] < t[1] THEN TRUE
    ELSE IF s[1] > t[1] THEN FALSE
    ELSE StrLess(Tail(s), Tail(t))

\* sorted(S, key=path string), S a set of paths.
RECURSIVE SortPaths(_)
SortPaths(S) ==
    IF S = {} THEN <<>>
    ELSE LET m == CHOOSE d \in S :
                      \A e \in S \ {d} : StrLess(PathStr(d), PathStr(e))
         IN <<m>> \o SortPaths(S \ {m})

\* The names of a set in string order.
SortNames(S) ==
    LET sorted == SortPaths({<<n>> : n \in S})
    IN [i \in 1..Len(sorted) |-> sorted[i][1]]

\* os.path.dirname / os.path.basename of a path given as its segments.
Dirname(p) == SubSeq(p, 1, Len(p) - 1)
Basename(p) == p[Len(p)]

IsPrefix(p, q) == Len(p) <= Len(q) /\ SubSeq(q, 1, Len(p)) = p

\* ------------------------------------------------------------- state

VARIABLES
    \* arguments and environment of the run
    clean,          \* args.clean
    keeps,          \* args.keeps: literal patterns, each a path
    docrootAbs,     \* args.docroot starts with '/'
    excludes,       \* args.excludes as given: literal patterns, each a path
    lfiles,         \* files below LOCAL_ROOT: path -> [mtime, size]
    skew,           \* server clock minus local clock
    listDot,        \* the server's NLST lists names that start with a dot
    emptyRaises,    \* the server answers NLST of an empty directory with 550
    features,       \* facts of the MLST line of the server's FEAT reply
    faultAt,        \* the faultAt-th command of the run fails with a reply or
                    \* error that is not a 5xx (0: none does)
    now,            \* local clock
    localMarker,    \* the file '.timestamp' exists in the local directory
    handles,        \* local files the program holds open
    \* the server
    rdirs,          \* directories, absolute paths
    rfiles,         \* files: absolute path -> [mtime (server clock), size]
    rcwd,           \* the connection's working directory
    \* the program
    pc,
    time_offset,
    use_mlst_modify_size,
    orphaned_files,
    tree,
    ti,             \* index of the tree entry being processed
    fi,             \* index of the file in that entry
    oi,             \* index of the orphan being deleted
    lastDirs,
    \* observation
    ftplog,         \* commands sent in this run, with their outcome
    difflog,        \* one record per tree file examined in this run
    navlog,         \* one record per tree entry navigated to in this run
    keeping,        \* paths announced by 'keeping %s'
    listed,         \* files the server listed to the indexer in this run
    visited,        \* directories os.walk yielded in this run
    emptyStart,     \* the document root held nothing when the first run began
    run,
    prev            \* how the previous run ended

vars == <<clean, keeps, excludes, docrootAbs, lfiles, skew, listDot, emptyRaises,
          features, faultAt, now, localMarker, handles,
          rdirs, rfiles, rcwd, pc,
          time_offset, use_mlst_modify_size, orphaned_files, tree, ti, fi, oi,
          lastDirs, ftplog, difflog, navlog, keeping, listed, visited,
          emptyStart, run, prev>>

inputs == <<clean, keeps, excludes, docrootAbs, lfiles, skew, listDot, emptyRaises,
            features, emptyStart>>

\* ---------------------------------------------------------- the server

\* The directory the FTP login starts in.
LoginDir == <<>>
\* args.docroot.lstrip('/').split('/')
DocrootSegs == <<"www">>
\* The document root the descent of lines 79-84 reaches.
Docroot == LoginDir \o DocrootSegs

Marker == ".timestamp"

\* The directory a CWD argument names, from working directory cwd.
Resolve(cwd, name) ==
    IF name = ".." THEN Dirname(cwd) ELSE Append(cwd, name)

\* The MDTM reply for a modification time, as its minutes and seconds fields.
FormatMDTM(t) == <<t \div SecondsPerMinute, t % SecondsPerMinute>>
\* calendar.timegm(time.strptime(reply, '%Y%m%d%H%M%S'))
TimeGm(reply) == reply[1] * SecondsPerMinute + reply[2]

\* A connection: working directory, the server's directories, the commands
\* sent so far, and whether an exception is propagating.  A command that
\* failed did so with a 5xx reply (ftplib.error_perm, err "perm") or with
\* anything else (error_temp, a dropped connection: err "temp").
Entry(cmd, arg, at, ok, phase) ==
    [cmd |-> cmd, arg |-> arg, at |-> at, ok |-> ok, phase |-> phase,
     err |-> IF ok THEN "none" ELSE "perm"]

\* The next command after log is the one that fails.
FaultyAfter(log) == faultAt = Len(log) + 1
Faulty(s) == FaultyAfter(s.log)

\* The outcome of a command sent after log, which the server can serve or not.
Send(log, cmd, arg, at, can, phase) ==
    IF FaultyAfter(log)
    THEN [Entry(cmd, arg, at, FALSE, phase) EXCEPT !.err = "temp"]
    ELSE Entry(cmd, arg, at, can, phase)

CwdCan(s, name) == name = ".." \/ Resolve(s.cwd, name) \in s.dirs

\* ftp.cwd(name)
Cwd(s, name, phase) ==
    LET e == Send(s.log, "CWD", <<name>>, s.cwd, CwdCan(s, name), phase)
    IN [s EXCEPT !.cwd = IF e.ok THEN Resolve(s.cwd, name) ELSE @,
                 !.log = Append(@, e)]

MkdCan(s, name) ==
    /\ Resolve(s.cwd, name) \notin s.dirs
    /\ Resolve(s.cwd, name) \notin DOMAIN rfiles

\* ftp.mkd(name)
Mkd(s, name, phase) ==
    LET e == Send(s.log, "MKD", <<name>>, s.cwd, MkdCan(s, name), phase)
    IN [s EXCEPT !.dirs = IF e.ok THEN @ \cup {Resolve(s.cwd, name)} ELSE @,
                 !.log = Append(@, e)]

Session == [cwd |-> rcwd, dirs |-> rdirs, log |-> ftplog, ok |-> TRUE]

\* The last command of a connection failed.
LastFailed(s) == ~s.log[Len(s.log)].ok

\* try: ftp.cwd(dir) / except error_perm: ftp.mkd(dir); ftp.cwd(dir), for each
\* directory of dirs in turn (lines 79-84 and 217-222).  Only error_perm is
\* caught, and only around the first cwd.
RECURSIVE Drill(_, _, _)
Drill(s, dirs, phase) ==
    IF dirs = <<>> THEN s
    ELSE LET dir == Head(dirs)
             s1 == Cwd(s, dir, phase)
             s2 == Mkd(s1, dir, phase)
             s3 == Cwd(s2, dir, phase)
         IN IF ~LastFailed(s1) THEN Drill(s1, Tail(dirs), phase)
            ELSE IF s1.log[Len(s1.log)].err # "perm" THEN [s1 EXCEPT !.ok = FALSE]
            ELSE IF LastFailed(s2) THEN [s2 EXCEPT !.ok = FALSE]
            ELSE IF LastFailed(s3) THEN [s3 EXCEPT !.ok = FALSE]
            ELSE Drill(s3, Tail(dirs), phase)

\* ------------------------------------------------------------ Init

Times == {0, SecondsPerMinute - 1, SecondsPerMinute}
Sizes == 0..MaxSize
Meta == [mtime : Times, size : Sizes]
RemoteTimes == (SecondsPerMinute - 1)..(SecondsPerMinute + 1)
RemoteMeta == [mtime : RemoteTimes, size : Sizes]
PlainMeta == [mtime |-> SecondsPerMinute - 1, size |-> 1]

Const(S, v) == [x \in S |-> v]
NoFiles == Const({}, PlainMeta)

Config(c, k, abs, sk, lf, rd, rf) ==
    [clean |-> c, keeps |-> k, excludes |-> {}, abs |-> abs, skew |-> sk,
     lfiles |-> lf, rd |-> rd, rf |-> rf, features |-> {}, faultAt |-> 0,
     \* only the indexer of a cleanup run sends NLST
     listings |-> IF c THEN BOOLEAN ELSE {FALSE}]

\* One tree file, every local and remote metadata, every clock skew, on a
\* server of one listing behaviour.
DiffConfigsOf(p) ==
    { [Config(c, {}, TRUE, sk, Const({p}, lm), {<<>>} \cup {Dirname(p)}, rf)
          EXCEPT !.listings = {FALSE}] :
        c \in BOOLEAN, sk \in (-MaxSkew)..MaxSkew, lm \in Meta,
        rf \in {NoFiles} \cup {Const({p}, rm) : rm \in RemoteMeta} }

DiffConfigs == DiffConfigsOf(<<"x">>) \cup DiffConfigsOf(<<"a", "x">>)

NavPaths ==
    {<<"x">>, <<"a", "x">>, <<"a", "b", "x">>, <<"a-", "x">>, <<"b", "y">>}

\* Every local tree of up to MaxFiles files, on a server whose document root
\* is missing, empty or partly populated.
NavConfigs ==
    { [Config(c, {}, TRUE, 0, Const(S, PlainMeta), r[1], r[2])
          EXCEPT !.listings = {FALSE}] :
        c \in BOOLEAN,
        S \in {T \in SUBSET NavPaths : T # {} /\ Cardinality(T) <= MaxFiles},
        r \in { <<{}, NoFiles>>, <<{<<>>}, NoFiles>>,
                <<{<<>>, <<"a">>}, Const({<<"a", "x">>}, PlainMeta)>> } }

\* Servers holding files the local tree lacks, kept paths and empty directories.
CleanRemotes ==
    { <<{<<>>, <<"a">>, <<"b">>, <<"c">>},
        Const({<<"a", "x">>, <<"b", "y">>, <<"c", "old">>}, PlainMeta)>>,
      <<{<<>>}, Const({<<"x">>, <<"keep">>, <<"old">>}, PlainMeta)>>,
      <<{<<>>, <<"keep">>, <<"a">>},
        Const({<<"keep", "old">>, <<"a", "x">>}, PlainMeta)>>,
      <<{<<>>, <<"a">>, <<"c">>}, Const({<<"a", "x">>}, PlainMeta)>>,
      <<{<<>>, <<"www">>}, Const({<<"www", "old">>}, PlainMeta)>> }

CleanConfigs ==
    { Config(TRUE, k, abs, 0, Const(S, PlainMeta), r[1], r[2]) :
        k \in {{}, {<<"keep">>}}, abs \in BOOLEAN,
        S \in {{<<"x">>}, {<<"a", "x">>, <<"b", "y">>}},
        r \in CleanRemotes }

\* A local tree three levels deep, walked under up to MaxExcludes exclude
\* rules that name directories and files of it.
ExcludePatterns == {<<"a">>, <<"a", "b">>, <<"b">>, <<"x">>, <<"a", "x">>}
ExcludeLocal == {<<"x">>, <<"a", "x">>, <<"a", "b", "x">>, <<"b", "y">>}
ExcludeConfigs ==
    { [Config(c, {}, TRUE, 0, Const(L, PlainMeta), {<<>>, <<"a">>},
              Const({<<"a", "x">>}, PlainMeta)) EXCEPT !.excludes = X] :
        c \in BOOLEAN,
        L \in {ExcludeLocal, {<<"a", "x">>, <<"a", "b", "x">>}},
        X \in {Y \in SUBSET ExcludePatterns :
                  Y # {} /\ Cardinality(Y) <= MaxExcludes} }

\* The MLST lines a FEAT reply may carry: none, or one with these facts.
FeatReplies == {{}, {"size"}, {"modify", "size"}}

\* One tree file in a directory, on a server that lacks the document root or
\* holds an older copy of the file, an orphan and an empty directory.
FaultRemotes ==
    { <<{}, NoFiles>>,
      <<{<<>>, <<"a">>, <<"c">>},
        [p \in {<<"a", "x">>, <<"old">>} |->
            [mtime |-> SecondsPerMinute - 1, size |-> 0]]>> }

\* Any one of the first MaxFaultAt commands of the run fails.
FaultConfigs ==
    { [Config(c, {}, TRUE, 0, Const({<<"a", "x">>}, PlainMeta), r[1], r[2])
          EXCEPT !.faultAt = n] :
        c \in BOOLEAN, n \in 1..MaxFaultAt, r \in FaultRemotes }

\* The FEAT reply advertises MLST, with the size fact or with both facts.
FeatConfigs ==
    { [Config(c, {}, TRUE, 0, Const({<<"a", "x">>}, PlainMeta), r[1], r[2])
          EXCEPT !.features = f] :
        c \in BOOLEAN, f \in FeatReplies, r \in FaultRemotes }

Configs ==
    DiffConfigs \cup NavConfigs \cup CleanConfigs \cup ExcludeConfigs
        \cup FaultConfigs \cup FeatConfigs

Init ==
    \E cfg \in Configs :
        /\ clean = cfg.clean
        /\ keeps = cfg.keeps
        /\ excludes = cfg.excludes
        /\ docrootAbs = cfg.abs
        /\ lfiles = cfg.lfiles
        /\ skew = cfg.skew
        /\ listDot \in cfg.listings
        /\ emptyRaises \in cfg.listings
        /\ features = cfg.features
        /\ faultAt = cfg.faultAt
        /\ localMarker = FALSE
        /\ handles = {}
        /\ now = SecondsPerMinute
        /\ rdirs = {<<>>} \cup {Docroot \o d : d \in cfg.rd}
        /\ rfiles = [p \in {Docroot \o q : q \in DOMAIN cfg.rf} |->
                        cfg.rf[SubSeq(p, Len(Docroot) + 1, Len(p))]]
        /\ rcwd = LoginDir
        /\ pc = "docroot"
        /\ time_offset = 0
        /\ use_mlst_modify_size = FALSE
        /\ orphaned_files = <<>>
        /\ tree = <<>>
        /\ ti = 1
        /\ fi = 1
        /\ oi = 1
        /\ lastDirs = <<>>
        /\ ftplog = <<>>
        /\ difflog = <<>>
        /\ navlog = <<>>
        /\ keeping = <<>>
        /\ listed = {}
        /\ visited = {}
        /\ emptyStart = (cfg.rd \subseteq {<<>>} /\ DOMAIN cfg.rf = {})
        /\ run = 1
        /\ prev = "none"

\* ---------------------------------------------------------- actions

\* Lines 78-84: change to the document root, creating it as needed.
ChangeToDocroot ==
    /\ pc = "docroot"
    /\ LET s == Drill(Session, DocrootSegs, "docroot")
       IN /\ rcwd' = s.cwd
          /\ rdirs' = s.dirs
          /\ ftplog' = s.log
          /\ pc' = IF s.ok THEN "calibrate" ELSE "aborted"
    /\ UNCHANGED <<inputs, faultAt, localMarker, handles,
                   now, rfiles, time_offset, use_mlst_modify_size,
                   orphaned_files, tree, ti, fi, oi, lastDirs, difflog, navlog,
                   keeping, listed, visited,
                   run, prev>>

\* A calibration that carries on after a failed command.
CalibrateSwallow(failed) == "features"

\* Lines 91-103: neither try has an except, so a failed STOR or MDTM
\* propagates out of the script.
AfterCalibrate(failed) == IF failed THEN "aborted" ELSE "features"

\* A calibration that removes the local marker on the normal path only.
RemoveUnlessFailed(failed) == failed

\* Lines 102-103: finally: os.remove('.timestamp'); whether the local marker
\* file exists afterwards.
LocalMarkerAfter(failed) == FALSE

\* Lines 94-95: finally: file.close().
CloseMarker(open) == open \ {<<Marker>>}

\* Lines 88-103: store the marker, compare its local and remote modification
\* times.  The local file is created at `now'; the server finishes the STOR d
\* seconds later, by its own clock.
CalibrateTimeOffset ==
    /\ pc = "calibrate"
    /\ \E d \in 0..MaxLatency :
        LET target == Append(rcwd, Marker)
            stor == Send(ftplog, "STOR", <<Marker>>, rcwd, TRUE, "calibrate")
            stored == IF stor.ok
                      THEN [p \in DOMAIN rfiles \cup {target} |->
                               IF p = target
                               THEN [mtime |-> now + d + skew, size |-> 0]
                               ELSE rfiles[p]]
                      ELSE rfiles
            log1 == Append(ftplog, stor)
            mdtm == Send(log1, "MDTM", <<Marker>>, rcwd, TRUE, "calibrate")
            failed == ~stor.ok \/ ~mdtm.ok
            local_time == now
            remote_time == TimeGm(FormatMDTM(stored[target].mtime))
        IN /\ rfiles' = stored
           /\ now' = now + d
           /\ time_offset' = IF failed THEN time_offset
                              ELSE local_time - remote_time
           /\ ftplog' = IF stor.ok THEN Append(log1, mdtm) ELSE log1
           /\ handles' = CloseMarker(handles \cup {<<Marker>>})
           /\ localMarker' = LocalMarkerAfter(failed)
           /\ pc' = AfterCalibrate(failed)
    /\ UNCHANGED <<inputs, faultAt, rdirs, rcwd, use_mlst_modify_size,
                   orphaned_files, tree, ti, fi, oi, lastDirs, difflog, navlog,
                   keeping, listed, visited, run, prev>>

\* Lines 112-123, for a FEAT reply whose MLST line carries the facts reply.
\* Line 113 has re compile a look-behind of variable width, which raises
\* ('look-behind requires fixed-width pattern') before the reply is looked
\* at; the bare except passes.  opts: OPTS MLST was sent.
NegotiateMlst(reply) == [opts |-> FALSE, use_mlst_modify_size |-> FALSE]

\* Lines 107-127: FEAT is sent outside any try, so a server that answers it
\* with an error (featOk false: 500 or 502) ends the run.
CheckFeatures ==
    /\ pc = "features"
    /\ \E featOk \in BOOLEAN :
        LET feat == Send(ftplog, "FEAT", <<>>, rcwd, featOk, "features")
            mlst == NegotiateMlst(features)
            log1 == Append(ftplog, feat)
            opts == Send(log1, "OPTS", <<"MLST">>, rcwd, TRUE, "features")
        IN /\ ftplog' = IF feat.ok /\ mlst.opts THEN Append(log1, opts) ELSE log1
           /\ use_mlst_modify_size' =
                  (feat.ok /\ mlst.opts /\ opts.ok /\ mlst.use_mlst_modify_size)
           /\ pc' = IF ~feat.ok THEN "aborted"
                    ELSE IF clean THEN "index" ELSE "tree"
    /\ UNCHANGED <<inputs, faultAt, localMarker, handles,
                   now, rdirs, rfiles,
                   rcwd, time_offset, orphaned_files, tree, ti, fi, oi, lastDirs,
                   difflog, navlog, keeping, listed, visited, run, prev>>

\* ftp.nlst(): the names in the working directory, in string order.  Servers
\* differ on whether names starting with a dot are listed (listDot).
NlstNames(cwd) ==
    SortNames({Basename(p) : p \in {q \in rdirs \cup DOMAIN rfiles :
                                       /\ q # <<>>
                                       /\ Dirname(q) = cwd
                                       /\ (listDot \/ Basename(q) # Marker)}})

\* re.match('(%s)$' % keep, filePath) for some keep: the patterns are literal.
KeepMatches(filePath) == filePath \in keeps

\* Lines 132-156.  Where the server answers NLST of an empty directory with
\* 550 (emptyRaises), ftplib raises error_perm.  The result carries the
\* connection, the paths announced as kept, and whether nlst raised.  The
\* bare except of line 154 catches whatever lines 151-153 raise.
RECURSIVE rlst(_, _), rlstLoop(_, _, _, _, _)
rlst(s, path) ==
    LET names == NlstNames(s.cwd)
        e == Send(s.log, "NLST", <<>>, s.cwd, ~(names = <<>> /\ emptyRaises), "index")
        s1 == [s EXCEPT !.log = Append(@, e)]
    IN IF ~e.ok THEN [results |-> <<>>, s |-> s1, kept |-> <<>>, raised |-> TRUE]
       ELSE rlstLoop(s1, path, names, <<>>, <<>>)
rlstLoop(s, path, names, results, kept) ==
    IF names = <<>>
    THEN [results |-> results, s |-> s, kept |-> kept, raised |-> FALSE]
    ELSE LET file == Head(names)
             filePath == IF path # <<>> THEN Append(path, file) ELSE <<file>>
             \* the keep loop prints and continues with the next pattern
             kept1 == IF KeepMatches(filePath) THEN Append(kept, filePath) ELSE kept
             s1 == Cwd(s, file, "index")
         IN IF LastFailed(s1)
            THEN rlstLoop(s1, path, Tail(names), Append(results, <<file>>), kept1)
            ELSE LET sub == rlst(s1, filePath)
                     more == results \o [i \in 1..Len(sub.results) |->
                                            <<file>> \o sub.results[i]]
                     s2 == Cwd(sub.s, "..", "index")
                 IN IF sub.raised
                    THEN rlstLoop(sub.s, path, Tail(names),
                                  Append(results, <<file>>), kept1 \o sub.kept)
                    ELSE rlstLoop(s2, path, Tail(names),
                                  IF LastFailed(s2) THEN Append(more, <<file>>)
                                  ELSE more,
                                  kept1 \o sub.kept)

\* The files below the document root that the server's listings show.
ListedFiles ==
    { SubSeq(p, Len(Docroot) + 1, Len(p)) :
        p \in {q \in DOMAIN rfiles : /\ IsPrefix(Docroot, q)
                                     /\ (listDot \/ Basename(q) # Marker)} }

\* Lines 130-160: orphaned_files = rlst().
IndexServer ==
    /\ pc = "index"
    /\ LET r == rlst(Session, <<>>)
       IN /\ rcwd' = r.s.cwd
          /\ ftplog' = r.s.log
          /\ keeping' = r.kept
          /\ orphaned_files' = r.results
          /\ listed' = ListedFiles
          /\ pc' = IF r.raised THEN "aborted" ELSE "tree"
    /\ UNCHANGED <<inputs, faultAt, localMarker, handles,
                   now, rdirs, rfiles, time_offset, use_mlst_modify_size,
                   tree, ti, fi, oi, lastDirs, difflog, navlog, visited, run,
                   prev>>

\* Lines 53 and 69: the exclude patterns, '.timestamp' always among them.
\* re.match('(%s)$' % exclude, path) for some exclude: the patterns are
\* literal, so one matches exactly the path it spells.
ExcludeMatches(path) == path \in excludes \cup {<<Marker>>}

\* The directories and the files of LOCAL_ROOT directly inside root.
LocalDirsIn(root) ==
    { SubSeq(p, 1, Len(root) + 1) :
        p \in {q \in DOMAIN lfiles : IsPrefix(root, q) /\ Len(q) > Len(root) + 1} }
LocalFilesIn(root) == {p \in DOMAIN lfiles : Dirname(p) = root}

\* A walk that descends into every directory.
KeepAllDirs(dirs) == dirs

\* Lines 175-180: dirs after the deletions, which os.walk then descends into.
PruneDirs(dirs) == {d \in dirs : ~ExcludeMatches(d)}

\* Lines 181-186: files after the deletions.
PruneFiles(files) == {f \in files : ~ExcludeMatches(f)}

\* os.walk(LOCAL_ROOT) from root down, with the body of lines 170-186: what
\* each visited directory yields.
RECURSIVE Walk(_)
Walk(root) ==
    {[root |-> root, files |-> PruneFiles(LocalFilesIn(root))]}
        \cup UNION {Walk(d) : d \in PruneDirs(LocalDirsIn(root))}

\* Lines 162-191: the tree, one entry per visited directory that holds files,
\* sorted by directory path.
BuildTree ==
    /\ pc = "tree"
    /\ LET yielded == Walk(<<>>)
           dirs == SortPaths({y.root : y \in {z \in yielded : z.files # {}}})
           FilesOf(d) == (CHOOSE y \in yielded : y.root = d).files
       IN /\ visited' = {y.root : y \in yielded}
          /\ tree' = [i \in 1..Len(dirs) |->
                         [path |-> dirs[i],
                          files |-> SortNames({Basename(p) : p \in FilesOf(dirs[i])})]]
          \* the loop of line 195 has no iteration when the tree is empty
          /\ pc' = IF dirs # <<>> THEN "walk"
                   ELSE IF clean THEN "cleanup" ELSE "quit"
    /\ UNCHANGED <<inputs, faultAt, localMarker, handles,
                   now, rdirs, rfiles, rcwd, time_offset,
                   use_mlst_modify_size, orphaned_files, ti, fi, oi, lastDirs,
                   ftplog, difflog, navlog, keeping, listed, run, prev>>

\* Lines 206-212: the value of i after the for/else over zip(lastDirs, dirs).
CommonStart(last, dirs) ==
    LET n == IF Len(last) < Len(dirs) THEN Len(last) ELSE Len(dirs)
        differ == {i \in 1..n : last[i] # dirs[i]}
    IN IF differ = {} THEN Len(last)
       ELSE (CHOOSE i \in differ : \A j \in differ : i <= j) - 1

\* A navigator that always drops back to the document root.
DropToDocroot(last, dirs) == Len(last)

\* Lines 207-210: the number of ftp.cwd('..') sent.
DropCount(last, dirs) ==
    LET n == IF Len(last) < Len(dirs) THEN Len(last) ELSE Len(dirs)
    IN IF \E i \in 1..n : last[i] # dirs[i]
       THEN Len(last) - CommonStart(last, dirs)
       ELSE 0

\* Lines 208-209: n times ftp.cwd('..'), outside any try.
RECURSIVE CwdUp(_, _)
CwdUp(s, n) ==
    IF n = 0 THEN s
    ELSE LET s1 == Cwd(s, "..", "walk")
         IN IF LastFailed(s1) THEN [s1 EXCEPT !.ok = FALSE] ELSE CwdUp(s1, n - 1)

\* Lines 202-222: drop back to the last common directory, then drill down.
GotoPath(s, last, dirs) ==
    LET up == CwdUp(s, DropCount(last, dirs))
    IN IF ~up.ok THEN up
       ELSE Drill(up, SubSeq(dirs, CommonStart(last, dirs) + 1, Len(dirs)), "walk")

\* Lines 195-222, for the tree entry ti.
Navigate ==
    /\ pc = "walk"
    /\ LET dirs == tree[ti].path
           s == GotoPath(Session, lastDirs, dirs)
       IN /\ rcwd' = s.cwd
          /\ rdirs' = s.dirs
          /\ ftplog' = s.log
          /\ navlog' = Append(navlog,
                 [from |-> lastDirs, to |-> dirs, ok |-> s.ok,
                  cmds |-> SubSeq(s.log, Len(ftplog) + 1, Len(s.log))])
          \* line 213 is reached unless a cwd('..') raised
          /\ lastDirs' = IF CwdUp(Session, DropCount(lastDirs, dirs)).ok
                         THEN dirs ELSE lastDirs
          /\ pc' = IF s.ok THEN "files" ELSE "aborted"
    /\ fi' = 1
    /\ UNCHANGED <<inputs, faultAt, localMarker, handles,
                   now, rfiles, time_offset, use_mlst_modify_size,
                   orphaned_files, tree, ti, oi, difflog, keeping, listed,
                   visited, run, prev>>

\* An upload decision that ignores the sizes.
UploadNeededTimeOnly(local_time, local_size, remote_time, remote_size) ==
    local_time > remote_time

\* An upload decision that takes any difference of the times for a change.
UploadNeededAnyTimeDiff(local_time, local_size, remote_time, remote_size) ==
    local_time # remote_time \/ local_size # remote_size

\* Line 256.
UploadNeeded(local_time, local_size, remote_time, remote_size) ==
    local_time > remote_time \/ local_size # remote_size

\* A walk that leaves the orphan list as the indexer built it.
RemoveNone(list, x) == list

\* orphaned_files.remove(x), ValueError passed over (lines 230-233).
RECURSIVE RemoveFirst(_, _)
RemoveFirst(list, x) ==
    IF list = <<>> THEN <<>>
    ELSE IF Head(list) = x THEN Tail(list)
    ELSE <<Head(list)>> \o RemoveFirst(Tail(list), x)

\* Lines 264-266: open, storbinary, close, with no try around them; the
\* handles open afterwards.
HandlesAfterUpload(open, file_path, storOk) ==
    IF storOk THEN open ELSE open \cup {file_path}

\* Lines 225-267, for file fi of the tree entry ti.  The except of line 249
\* catches error_perm only; with use_mlst_modify_size set, line 243 sends MLST
\* and raises on the reply (str has no method lowercase).
SyncFile ==
    /\ pc = "files"
    /\ LET path == tree[ti].path
           file == tree[ti].files[fi]
           file_path == Append(path, file)
           local_time == lfiles[file_path].mtime
           local_size == lfiles[file_path].size
           target == Append(rcwd, file)
           found == target \in DOMAIN rfiles
           mlst == Send(ftplog, "MLST", <<file>>, rcwd, found, "walk")
           mdtm == Send(ftplog, "MDTM", <<file>>, rcwd, found, "walk")
           first == IF use_mlst_modify_size THEN mlst ELSE mdtm
           log1 == Append(ftplog, first)
           size == Send(log1, "SIZE", <<file>>, rcwd, TRUE, "walk")
           log2 == IF mdtm.ok /\ ~use_mlst_modify_size THEN Append(log1, size)
                   ELSE log1
           queryRaised == \/ first.err = "temp"
                          \/ use_mlst_modify_size /\ mlst.ok
                          \/ ~use_mlst_modify_size /\ mdtm.ok /\ ~size.ok
           remote_time == IF found
                          THEN TimeGm(FormatMDTM(rfiles[target].mtime)) + time_offset
                          ELSE 0
           remote_size == IF found THEN rfiles[target].size ELSE 0
           upload == /\ ~queryRaised
                     /\ UploadNeeded(local_time, local_size, remote_time, remote_size)
           stor == Send(log2, "STOR", <<file>>, rcwd, target \notin rdirs, "walk")
           storOk == stor.ok
           lastFile == fi = Len(tree[ti].files)
           lastEntry == ti = Len(tree)
       IN /\ orphaned_files' = IF clean THEN RemoveFirst(orphaned_files, file_path)
                               ELSE orphaned_files
          /\ ftplog' = IF upload THEN Append(log2, stor) ELSE log2
          /\ rfiles' = IF upload /\ storOk
                       THEN [p \in DOMAIN rfiles \cup {target} |->
                                IF p = target
                                THEN [mtime |-> now + skew, size |-> local_size]
                                ELSE rfiles[p]]
                       ELSE rfiles
          /\ handles' = IF upload THEN HandlesAfterUpload(handles, file_path, storOk)
                        ELSE handles
          /\ difflog' = IF queryRaised THEN difflog
                        ELSE Append(difflog,
                 [file_path |-> file_path, dir |-> path, believed |-> lastDirs,
                  at |-> rcwd, local_time |-> local_time, local_size |-> local_size,
                  found |-> found,
                  raw_time |-> IF found THEN rfiles[target].mtime ELSE 0,
                  raw_size |-> IF found THEN rfiles[target].size ELSE 0,
                  offset |-> time_offset, uploaded |-> upload])
          /\ pc' = IF queryRaised \/ (upload /\ ~storOk) THEN "aborted"
                   ELSE IF ~lastFile THEN "files"
                   ELSE IF ~lastEntry THEN "walk"
                   ELSE IF clean THEN "cleanup" ELSE "quit"
          /\ fi' = IF lastFile THEN 1 ELSE fi + 1
          /\ ti' = IF lastFile /\ ~lastEntry THEN ti + 1 ELSE ti
    /\ UNCHANGED <<inputs, faultAt, localMarker, now, rdirs, rcwd, time_offset,
                   use_mlst_modify_size, tree, oi, lastDirs, navlog, keeping,
                   listed, visited, run, prev>>

\* Line 272: ftp.cwd(args.docroot), the argument as given on the command line.
ReturnToDocroot ==
    /\ pc = "cleanup"
    /\ LET target == IF docrootAbs THEN DocrootSegs ELSE rcwd \o DocrootSegs
           e == Send(ftplog, "CWD", DocrootSegs, rcwd, target \in rdirs, "cleanup")
           ok == e.ok
       IN /\ rcwd' = IF ok THEN target ELSE rcwd
          /\ ftplog' = Append(ftplog, e)
          /\ pc' = IF ~ok THEN "aborted"
                   ELSE IF orphaned_files = <<>> THEN "quit" ELSE "delete"
    /\ oi' = 1
    /\ UNCHANGED <<inputs, faultAt, localMarker, handles,
                   now, rdirs, rfiles, time_offset, use_mlst_modify_size,
                   orphaned_files, tree, ti, fi, lastDirs, difflog, navlog,
                   keeping, listed, visited,
                   run, prev>>

\* Lines 273-276, for the orphan oi.
DeleteOrphan ==
    /\ pc = "delete"
    /\ LET file == orphaned_files[oi]
           target == rcwd \o file
           e == Send(ftplog, "DELE", file, rcwd, target \in DOMAIN rfiles, "cleanup")
           ok == e.ok
       IN /\ ftplog' = Append(ftplog, e)
          /\ rfiles' = IF ok THEN [p \in DOMAIN rfiles \ {target} |-> rfiles[p]]
                       ELSE rfiles
          /\ pc' = IF ~ok THEN "aborted"
                   ELSE IF oi = Len(orphaned_files) THEN "quit" ELSE "delete"
    /\ oi' = oi + 1
    /\ UNCHANGED <<inputs, faultAt, localMarker, handles,
                   now, rdirs, rcwd, time_offset, use_mlst_modify_size,
                   orphaned_files, tree, ti, fi, lastDirs, difflog, navlog,
                   keeping, listed, visited,
                   run, prev>>

\* Line 278.
Quit ==
    /\ pc = "quit"
    /\ LET e == Send(ftplog, "QUIT", <<>>, rcwd, TRUE, "quit")
       IN /\ ftplog' = Append(ftplog, e)
          /\ pc' = IF e.ok THEN "done" ELSE "aborted"
    /\ UNCHANGED <<inputs, faultAt, localMarker, handles,
                   now, rdirs, rfiles, rcwd, time_offset,
                   use_mlst_modify_size, orphaned_files, tree, ti, fi, oi,
                   lastDirs, difflog, navlog, keeping, listed, visited,
                   run, prev>>

\* The operator starts the program again: a new connection, the same
\* arguments, the same local tree, the server as the last run left it.
RunAgain ==
    /\ pc \in {"done", "aborted"}
    /\ run < MaxRuns
    /\ run' = run + 1
    /\ prev' = pc
    /\ pc' = "docroot"
    /\ rcwd' = LoginDir
    /\ time_offset' = 0
    /\ use_mlst_modify_size' = FALSE
    /\ orphaned_files' = <<>>
    /\ tree' = <<>>
    /\ ti' = 1
    /\ fi' = 1
    /\ oi' = 1
    /\ lastDirs' = <<>>
    /\ ftplog' = <<>>
    /\ difflog' = <<>>
    /\ navlog' = <<>>
    /\ keeping' = <<>>
    /\ listed' = {}
    /\ visited' = {}
    \* the process that held them has exited
    /\ handles' = {}
    \* the failure was of the first run
    /\ faultAt' = 0
    /\ UNCHANGED <<inputs, localMarker, now, rdirs, rfiles>>

Next ==
    \/ ChangeToDocroot
    \/ CalibrateTimeOffset
    \/ CheckFeatures
    \/ IndexServer
    \/ BuildTree
    \/ Navigate
    \/ SyncFile
    \/ ReturnToDocroot
    \/ DeleteOrphan
    \/ Quit
    \/ RunAgain

Spec == Init /\ [][Next]_vars

\* ------------------------------------------- the navigation step alone

\* Directories below the document root, as segment lists.
RECURSIVE DirsOfDepth(_)
DirsOfDepth(n) ==
    IF n = 0 THEN {<<>>}
    ELSE {Append(d, seg) : d \in DirsOfDepth(n - 1), seg \in {"a", "b"}}
GotoDirs == UNION {DirsOfDepth(n) : n \in 0..MaxDepth}

\* d and the directories above it.
UpTo(d) == {SubSeq(d, 1, k) : k \in 0..Len(d)}

\* The walk stands in document-root/current, which lastDirs records, and its
\* next tree entry is target, for every current and target; the server holds
\* the directories of target or not.
GotoInit ==
    \E current \in GotoDirs, target \in GotoDirs, made \in BOOLEAN :
        /\ clean = FALSE
        /\ keeps = {}
        /\ excludes = {}
        /\ docrootAbs = TRUE
        /\ lfiles = Const({Append(target, "x")}, PlainMeta)
        /\ skew = 0
        /\ listDot = FALSE
        /\ emptyRaises = FALSE
        /\ features = {}
        /\ faultAt = 0
        /\ localMarker = FALSE
        /\ handles = {}
        /\ now = SecondsPerMinute
        /\ rdirs = {Docroot \o d :
                       d \in UpTo(current) \cup (IF made THEN UpTo(target) ELSE {})}
                       \cup UpTo(Docroot)
        /\ rfiles = NoFiles
        /\ rcwd = Docroot \o current
        /\ pc = "walk"
        /\ time_offset = 0
        /\ use_mlst_modify_size = FALSE
        /\ orphaned_files = <<>>
        /\ tree = <<[path |-> target, files |-> <<"x">>]>>
        /\ ti = 1
        /\ fi = 1
        /\ oi = 1
        /\ lastDirs = current
        /\ ftplog = <<>>
        /\ difflog = <<>>
        /\ navlog = <<>>
        /\ keeping = <<>>
        /\ listed = {}
        /\ visited = {}
        /\ emptyStart = FALSE
        /\ run = 1
        /\ prev = "none"

GotoNext == Navigate

GotoSpec == GotoInit /\ [][GotoNext]_vars

\* ------------------------------------------------------- observations

\* The records of a log, as a set.
Range(log) == {log[i] : i \in 1..Len(log)}

\* A STOR of the tree file of difflog record e was sent in this run.
StorSent(e) ==
    \E c \in Range(ftplog) :
        /\ c.cmd = "STOR" /\ c.phase = "walk"
        /\ c.at = e.at /\ c.arg = <<Basename(e.file_path)>>

\* The raw remote modification time of e corrected by the time offset.
Corrected(e) == e.raw_time + e.offset

\* The absolute path a DELE command names.
DeleTarget(c) == c.at \o c.arg

\* Length of the longest common prefix of two segment lists.
CommonPrefixLen(p, q) ==
    CHOOSE k \in 0..Len(p) :
        /\ k <= Len(q)
        /\ SubSeq(p, 1, k) = SubSeq(q, 1, k)
        /\ (k < Len(p) /\ k < Len(q) => p[k + 1] # q[k + 1])

\* A path is covered by a keep rule: it, or a directory above it, matches.
Kept(p) == \E k \in keeps : IsPrefix(k, p)

\* A local path is excluded: it, or a directory above it, matches a rule.
Excluded(p) == \E k \in 1..Len(p) : ExcludeMatches(SubSeq(p, 1, k))

\* The files of the (post-filter) local tree.
TreeFiles == {p \in DOMAIN lfiles : ~Excluded(p)}

\* The directories below LOCAL_ROOT.
LocalDirs ==
    UNION { {SubSeq(p, 1, k) : k \in 1..(Len(p) - 1)} : p \in DOMAIN lfiles }

\* The remote directories a tree needs below the document root.
NeededDirs ==
    UNION { {SubSeq(Dirname(p), 1, k) : k \in 1..Len(Dirname(p))} : p \in TreeFiles }

\* A failed command whose failure is a not-found outcome: a 5xx reply to a
\* change-directory, a listing or a metadata query.
NotFound(c) == c.err = "perm" /\ c.cmd \in {"CWD", "NLST", "MDTM", "SIZE", "MLST"}

\* A command of remote navigation (document-root descent, orphan indexing,
\* per-directory walk) or a metadata query.
NavOrQuery(c) ==
    \/ c.phase \in {"docroot", "index"}
    \/ c.phase = "walk" /\ c.cmd \in {"CWD", "MKD", "MDTM", "SIZE", "MLST"}

\* The calibration marker was written to the remote document root in this run.
MarkerWritten ==
    \E c \in Range(ftplog) :
        c.cmd = "STOR" /\ c.phase = "calibrate" /\ c.ok /\ c.at = Docroot

\* The remote path of the calibration marker.
RemoteMarker == Append(Docroot, Marker)

\* The run has ended, normally or by an uncaught exception.
Ended == pc \in {"done", "aborted"}

\* The number of files of the tree.
RECURSIVE TreeSize(_)
TreeSize(t) == IF t = <<>> THEN 0 ELSE Len(Head(t).files) + TreeSize(Tail(t))

\* ------------------------------------------------------------ claims

\* C1: a tree file whose metadata query succeeded is uploaded if and only if
\* local_mtime > raw remote mtime + time offset, or the sizes differ.
C1_UploadDecision ==
    \A e \in Range(difflog) :
        e.found =>
            (StorSent(e) <=>
                (e.local_time > e.raw_time + e.offset \/ e.local_size # e.raw_size))

\* C1 witness: a size mismatch alone forced an upload.
C1_Witness ==
    \E e \in Range(difflog) :
        /\ e.found /\ e.local_size # e.raw_size
        /\ e.local_time <= e.raw_time + e.offset
        /\ StorSent(e)

\* C2 (as claimed): a second run that follows a completed run, with the local
\* tree unchanged, sends no upload of a tree file and no delete.
C2_Idempotent ==
    (run = 2 /\ prev = "done") =>
        \A c \in Range(ftplog) :
            /\ ~(c.cmd = "STOR" /\ c.phase = "walk")
            /\ c.cmd # "DELE"

\* C3: with cleanup, no delete command names the remote path of a tree file,
\* and a remote file found for a tree file is still on the server.
C3_LocalCounterpartKept ==
    clean =>
        /\ \A c \in Range(ftplog) :
              c.cmd = "DELE" => DeleTarget(c) \notin {Docroot \o p : p \in TreeFiles}
        /\ \A e \in Range(difflog) :
              (e.found /\ e.at = Docroot \o e.dir) =>
                  Docroot \o e.file_path \in DOMAIN rfiles

\* C3 witness: a cleanup run ended after deleting an orphan, while an indexed
\* remote file that has a local counterpart was left in place.
C3_Witness ==
    /\ clean /\ pc = "done"
    /\ \E c \in Range(ftplog) : c.cmd = "DELE" /\ c.ok
    /\ \E e \in Range(difflog) :
          /\ e.found /\ e.file_path \in listed
          /\ Docroot \o e.file_path \in DOMAIN rfiles

\* C4 (as claimed): a path covered by a keep rule is never an orphan candidate
\* and never the target of a delete.
C4_KeepProtection ==
    /\ \A p \in Range(orphaned_files) : ~Kept(p)
    /\ \A c \in Range(ftplog) :
          c.cmd = "DELE" => \A k \in keeps : ~IsPrefix(Docroot \o k, DeleTarget(c))

\* C5 (as claimed): after indexing, OrphanSet is the recursive listing minus
\* the kept paths; a completed cleanup run has deleted every listed file that
\* has no local counterpart and is not kept, with one delete each.
C5_OrphansDeleted ==
    /\ (clean /\ pc = "tree") =>
          /\ Range(orphaned_files) = {p \in listed : ~Kept(p)}
          /\ Len(orphaned_files) = Cardinality(Range(orphaned_files))
    /\ (clean /\ pc = "done") =>
          \A p \in listed :
              (p \notin TreeFiles /\ ~Kept(p)) =>
                  /\ Docroot \o p \notin DOMAIN rfiles
                  /\ Cardinality({i \in 1..Len(ftplog) :
                          ftplog[i].cmd = "DELE" /\ ftplog[i].arg = p}) = 1

\* C6 (as claimed): every metadata query and upload of a file of entry D is
\* sent in document-root/D, which is what lastDirs records; after a completed
\* navigation the recorded state is the real working directory.
C6_NavigatorState ==
    /\ \A e \in Range(difflog) : e.believed = e.dir /\ e.at = Docroot \o e.dir
    /\ pc = "files" => rcwd = Docroot \o lastDirs

\* C7 (as claimed): a tree file whose metadata query failed as not-found is
\* uploaded, whatever its modification time and size.
C7_AbsentUploaded ==
    \A e \in Range(difflog) : ~e.found => StorSent(e)

\* C8: a tree file found on the server with the same size and a (corrected)
\* remote modification time strictly greater than the local one is not
\* uploaded.
C8_NoReverseSync ==
    \A e \in Range(difflog) :
        (e.found /\ e.local_size = e.raw_size /\ Corrected(e) > e.local_time) =>
            ~StorSent(e)

\* C8 witness: such a file was examined and left alone.
C8_Witness ==
    \E e \in Range(difflog) :
        /\ e.found /\ e.local_size = e.raw_size /\ Corrected(e) > e.local_time
        /\ ~StorSent(e)

\* C9: between consecutive tree directories D1 and D2 the navigator sends
\* len(D1) - k move-to-parent commands, k the common prefix length, and then
\* exactly one successful change-directory per segment of D2 beyond k.
C9_NavigatorCost ==
    \A i \in 2..Len(navlog) :
        LET D1 == tree[i - 1].path
            D2 == tree[i].path
            k == CommonPrefixLen(D1, D2)
            ups == Len(D1) - k
            cmds == navlog[i].cmds
            IsUp(c) == c.cmd = "CWD" /\ c.arg = <<"..">>
            IsDown(c) == c.cmd = "CWD" /\ c.arg # <<"..">> /\ c.ok
            downs == SelectSeq(cmds, IsDown)
        IN /\ navlog[i].from = D1 /\ navlog[i].to = D2
           /\ (\A c \in Range(cmds) : IsUp(c) => c.ok) =>
                 /\ Len(SelectSeq(cmds, IsUp)) = ups
                 /\ Len(cmds) >= ups
                 /\ \A j \in 1..ups : IsUp(cmds[j])
           /\ navlog[i].ok =>
                 /\ Len(downs) = Len(D2) - k
                 /\ \A j \in 1..Len(downs) : downs[j].arg = <<D2[k + j]>>

\* C9 witness: a navigation that moved up two levels and then down one.
C9_Witness ==
    \E i \in 2..Len(navlog) :
        /\ navlog[i].ok
        /\ Len(navlog[i].from) - CommonPrefixLen(navlog[i].from, navlog[i].to) = 2
        /\ Len(navlog[i].to) - CommonPrefixLen(navlog[i].from, navlog[i].to) = 1

\* C10 (as claimed): from an empty document root and without cleanup, a
\* completed run has uploaded every tree file exactly once and created every
\* needed directory exactly once; a failed change-directory of the walk is
\* followed at once by create-directory and a successful change-directory.
C10_EmptyRemoteRun ==
    (run = 1 /\ ~clean /\ emptyStart /\ pc = "done") =>
        /\ \A p \in TreeFiles :
              Cardinality({i \in 1..Len(ftplog) :
                  /\ ftplog[i].cmd = "STOR" /\ ftplog[i].phase = "walk"
                  /\ ftplog[i].at \o ftplog[i].arg = Docroot \o p}) = 1
        /\ \A d \in NeededDirs :
              Cardinality({i \in 1..Len(ftplog) :
                  /\ ftplog[i].cmd = "MKD" /\ ftplog[i].phase = "walk"
                  /\ ftplog[i].at \o ftplog[i].arg = Docroot \o d}) = 1
        /\ Cardinality({i \in 1..Len(ftplog) :
              ftplog[i].cmd = "MKD" /\ ftplog[i].phase = "walk"})
              = Cardinality(NeededDirs)
        /\ \A i \in 1..Len(ftplog) :
              (ftplog[i].cmd = "CWD" /\ ftplog[i].phase = "walk" /\ ~ftplog[i].ok) =>
                  /\ i + 2 <= Len(ftplog)
                  /\ ftplog[i + 1].cmd = "MKD" /\ ftplog[i + 1].arg = ftplog[i].arg
                  /\ ftplog[i + 1].ok
                  /\ ftplog[i + 2].cmd = "CWD" /\ ftplog[i + 2].arg = ftplog[i].arg
                  /\ ftplog[i + 2].ok

\* C11: when the tree is built by walking, a local directory whose path
\* matches an exclude rule is pruned: neither it nor any directory below it is
\* visited or becomes a tree entry, and no file of its subtree is examined or
\* uploaded.
C11_ExcludePruning ==
    \A d \in {x \in LocalDirs : ExcludeMatches(x)} :
        /\ \A v \in visited : ~IsPrefix(d, v)
        /\ \A i \in 1..Len(tree) : ~IsPrefix(d, tree[i].path)
        /\ \A e \in Range(difflog) : ~IsPrefix(d, e.file_path)

\* C11 witness: a run completed with the directory a excluded, whose subtree
\* holds a file two levels down, after uploading a file outside that subtree.
C11_Witness ==
    /\ pc = "done"
    /\ ExcludeMatches(<<"a">>)
    /\ <<"a", "b", "x">> \in DOMAIN lfiles
    /\ visited # {}
    /\ \E e \in Range(difflog) : e.uploaded /\ StorSent(e)

\* C12 (as claimed): a navigation or metadata command that fails, other than
\* with a not-found outcome, is the last command of the run, and the run has
\* aborted.
C12_FailFast ==
    \A i \in 1..Len(ftplog) :
        (~ftplog[i].ok /\ ~NotFound(ftplog[i]) /\ NavOrQuery(ftplog[i])) =>
            (i = Len(ftplog) /\ pc = "aborted")

\* C13: when the STOR of the calibration marker or the MDTM query of it fails,
\* the run has aborted with that command as its last: nothing was indexed, no
\* directory navigated to, no tree file queried or uploaded, nothing deleted.
C13_CalibrationFatal ==
    (\E c \in Range(ftplog) : c.phase = "calibrate" /\ ~c.ok) =>
        /\ pc = "aborted"
        /\ ~ftplog[Len(ftplog)].ok /\ ftplog[Len(ftplog)].phase = "calibrate"
        /\ \A c \in Range(ftplog) : c.phase \in {"docroot", "calibrate"}
        /\ orphaned_files = <<>> /\ listed = {}
        /\ tree = <<>> /\ navlog = <<>> /\ difflog = <<>>

\* C13 witness: the marker was stored, the query of its modification time
\* failed, and the run aborted.
C13_Witness ==
    /\ pc = "aborted"
    /\ \E c \in Range(ftplog) : c.cmd = "STOR" /\ c.phase = "calibrate" /\ c.ok
    /\ \E c \in Range(ftplog) : c.cmd = "MDTM" /\ c.phase = "calibrate" /\ ~c.ok

\* C14 (as claimed): the run never aborts at a command of capability
\* negotiation, whatever the server answers; the combined-metadata
\* optimisation stays off and no combined query is sent.
C14_NegotiationNeverAborts ==
    /\ pc = "aborted" => ftplog[Len(ftplog)].phase # "features"
    /\ ~use_mlst_modify_size
    /\ \A c \in Range(ftplog) : c.cmd # "MLST"

\* C15 (as claimed): once the server has answered FEAT with a list whose MLST
\* line carries both the modify and the size fact, the enable command has been
\* sent, the optimisation is active, and every metadata query of a tree file is
\* one MLST instead of MDTM and SIZE.
C15_MlstEnabled ==
    ({"modify", "size"} \subseteq features
        /\ \E c \in Range(ftplog) : c.cmd = "FEAT" /\ c.ok) =>
        /\ \E c \in Range(ftplog) : c.cmd = "OPTS"
        /\ (\E c \in Range(ftplog) : c.cmd = "OPTS" /\ c.ok) => use_mlst_modify_size
        /\ \A c \in Range(ftplog) : c.phase = "walk" => c.cmd \notin {"MDTM", "SIZE"}

C17_HandlesClosed == Ended => handles = {}

C19_DeleteAtDocroot ==
    \A c \in Range(ftplog) :
        c.cmd = "DELE" =>
            /\ clean
            /\ visited # {} /\ Len(difflog) = TreeSize(tree)
            /\ c.at = Docroot
            /\ DeleTarget(c) = Docroot \o c.arg

\* C20 (as claimed): when the orphan indexing has returned, the real working
\* directory is the document root it was called in, whatever the listings and
\* change-directory commands inside the recursion answered; so the walk
\* starts at the document root.
C20_IndexKeepsCwd ==
    (clean /\ (pc = "tree" \/ (pc = "walk" /\ navlog = <<>>))) => rcwd = Docroot
====
